---- MODULE Spec2Model ----
(***************************************************************************)
(* Model of the Obsidian vault utilities:                                  *)
(*   Obsidian_Clean/organize_files.py  (Organizer, Heading Fixer, parser)  *)
(*   Obsidian_Clean/link_notes.py      (Linker, parser)                    *)
(*                                                                         *)
(* Strings are sequences of one-character strings, so that replace(),      *)
(* the regular expressions, split(), strip() and the substring test are    *)
(* computed character by character as Python computes them.                *)
(* The file system is a function from paths <<dir, name>> to files; the    *)
(* vault root is the directory <<>>.                                       *)
(***************************************************************************)
EXTENDS Integers, Sequences, FiniteSets, TLC

VARIABLES
    fs,               \* path -> [orig, content]: the regular files of the vault
    dirs,             \* names of the sub-directories of the vault root
    env,              \* what the environment refuses: [roDirs, noaccess]
    opc,              \* Organizer: "idle" | "run" | "done" | "crashed"
    md_files,         \* Organizer: names of the globbed files not yet processed
    organized_count, skipped_count, fixed_count, errors,
    oruns,            \* Organizer runs started
    ostart,           \* fs when the current Organizer run started
    lpc,              \* Linker: "idle" | "scan" | "link" | "done" | "crashed"
    mode,             \* Linker: "vault" (link_all_vault_notes) | "folder"
    ldir,             \* Linker: the directory being linked
    toScan,           \* Linker: globbed paths not yet parsed
    scanOrder,        \* Linker: paths in the order the scan met them
    all_date_files,   \* Linker: the date mapping, entries in insertion order
    work,             \* Linker: <<date, path>> pairs still to link, in loop order
    linked_count, link_skipped_count,
    lruns,            \* Linker runs started
    lbefore,          \* fs when the current Linker run started
    fname, dateL, dateO,              \* parser: the input and the two results
    hname, hcontent, horig, hrets     \* Heading Fixer: one file and the returns

fsVars    == <<fs, dirs, env>>
orgVars   == <<opc, md_files, organized_count, skipped_count, fixed_count,
               errors, oruns, ostart>>
linkVars  == <<lpc, mode, ldir, toScan, scanOrder, all_date_files, work,
               linked_count, link_skipped_count, lruns, lbefore>>
parseVars == <<fname, dateL, dateO>>
headVars  == <<hname, hcontent, horig, hrets>>
vars      == <<fsVars, orgVars, linkVars, parseVars, headVars>>

(***************************************************************************)
(* Bounds of the model                                                     *)
(***************************************************************************)
MaxOrgRuns == 2
MaxLinkRuns == 2
MaxHeadingCalls == 2

(***************************************************************************)
(* Characters and Python's string primitives                               *)
(***************************************************************************)
Digits == {"0", "1", "2", "3", "4", "5", "6", "7", "8", "9"}

DigitVal(c) ==
    CASE c = "0" -> 0 [] c = "1" -> 1 [] c = "2" -> 2 [] c = "3" -> 3
      [] c = "4" -> 4 [] c = "5" -> 5 [] c = "6" -> 6 [] c = "7" -> 7
      [] c = "8" -> 8 [] c = "9" -> 9

DigitChar(n) ==
    CASE n = 0 -> "0" [] n = 1 -> "1" [] n = 2 -> "2" [] n = 3 -> "3"
      [] n = 4 -> "4" [] n = 5 -> "5" [] n = 6 -> "6" [] n = 7 -> "7"
      [] n = 8 -> "8" [] n = 9 -> "9"

AllDigits(s) == \A i \in 1..Len(s) : s[i] \in Digits

\* int(s) for a string of decimal digits
RECURSIVE int(_)
int(s) ==
    IF s = <<>> THEN 0
    ELSE 10 * int(SubSeq(s, 1, Len(s) - 1)) + DigitVal(s[Len(s)])

\* str(n) for n >= 0
RECURSIVE str(_)
str(n) == IF n < 10 THEN <<DigitChar(n)>> ELSE str(n \div 10) \o <<DigitChar(n % 10)>>

\* format(n, "0<w>d"): str(n) left-padded with zeros to width w
RECURSIVE zfill(_, _)
zfill(s, w) == IF Len(s) >= w THEN s ELSE zfill(<<"0">> \o s, w)

MD == <<".", "m", "d">>

\* s.replace(".md", ""): every non-overlapping occurrence, left to right
RECURSIVE replace_md(_)
replace_md(s) ==
    IF Len(s) < 3 THEN s
    ELSE IF SubSeq(s, 1, 3) = MD THEN replace_md(SubSeq(s, 4, Len(s)))
    ELSE <<s[1]>> \o replace_md(Tail(s))

\* sub in s: s contains sub as a contiguous substring
Contains(s, sub) ==
    \E i \in 1..(Len(s) - Len(sub) + 1) : SubSeq(s, i, i + Len(sub) - 1) = sub

Whitespace == {" ", "\n", "\t"}

\* s.strip()
RECURSIVE lstrip(_)
lstrip(s) == IF s # <<>> /\ s[1] \in Whitespace THEN lstrip(Tail(s)) ELSE s
RECURSIVE rstrip(_)
rstrip(s) ==
    IF s # <<>> /\ s[Len(s)] \in Whitespace THEN rstrip(SubSeq(s, 1, Len(s) - 1))
    ELSE s
strip(s) == rstrip(lstrip(s))

\* s.split("-")
RECURSIVE split_dash(_)
split_dash(s) ==
    IF \A i \in 1..Len(s) : s[i] # "-" THEN <<s>>
    ELSE LET i == CHOOSE j \in 1..Len(s) :
                      s[j] = "-" /\ \A k \in 1..(j - 1) : s[k] # "-"
         IN  <<SubSeq(s, 1, i - 1)>> \o split_dash(SubSeq(s, i + 1, Len(s)))

\* pathlib: PurePath.suffix and PurePath.stem of a file name
LastDot(name) ==
    IF \A i \in 1..Len(name) : name[i] # "."
    THEN 0
    ELSE CHOOSE i \in 1..Len(name) :
             name[i] = "." /\ \A k \in (i + 1)..Len(name) : name[k] # "."
suffix(name) ==
    LET i == LastDot(name)
    IN  IF 1 < i /\ i < Len(name) THEN SubSeq(name, i, Len(name)) ELSE <<>>
stem(name) ==
    LET i == LastDot(name)
    IN  IF 1 < i /\ i < Len(name) THEN SubSeq(name, 1, i - 1) ELSE name

(***************************************************************************)
(* The Date Parser (both copies)                                           *)
(***************************************************************************)
\* The regular expression anchor $ (no MULTILINE): after k characters of s
\* the string ends, or only its final newline is left.
Dollar(s, k) == k = Len(s) \/ (k = Len(s) - 1 /\ s[Len(s)] = "\n")

\* re.sub(r"\(\d+\)$", "", s): the match ends where $ holds, on a ")",
\* and starts at the "(" that only digits, at least one, separate from it
re_sub_dup(s) ==
    LET e == IF s # <<>> /\ s[Len(s)] = ")" THEN Len(s)
             ELSE IF Len(s) >= 2 /\ s[Len(s)] = "\n" /\ s[Len(s) - 1] = ")"
             THEN Len(s) - 1
             ELSE 0
        hits == { i \in 1..(e - 2) :
                     s[i] = "(" /\ AllDigits(SubSeq(s, i + 1, e - 1)) }
    IN  IF hits = {} THEN s
        ELSE LET i == CHOOSE k \in hits : TRUE
             IN  SubSeq(s, 1, i - 1) \o SubSeq(s, e + 1, Len(s))

\* re.match(r"^(\d{1,2})-(\d{1,2})-(\d{4})$", s): the groups, or <<>>
re_match_date(s) ==
    LET hits == { p \in (1..2) \X (1..2) :
                     /\ p[1] + p[2] + 6 <= Len(s)
                     /\ AllDigits(SubSeq(s, 1, p[1]))
                     /\ s[p[1] + 1] = "-"
                     /\ AllDigits(SubSeq(s, p[1] + 2, p[1] + 1 + p[2]))
                     /\ s[p[1] + p[2] + 2] = "-"
                     /\ AllDigits(SubSeq(s, p[1] + p[2] + 3, p[1] + p[2] + 6))
                     /\ Dollar(s, p[1] + p[2] + 6) }
    IN  IF hits = {} THEN <<>>
        ELSE LET p == CHOOSE q \in hits : TRUE
             IN  << SubSeq(s, 1, p[1]),
                    SubSeq(s, p[1] + 2, p[1] + 1 + p[2]),
                    SubSeq(s, p[1] + p[2] + 3, p[1] + p[2] + 6) >>

IsLeap(y) == (y % 4 = 0 /\ y % 100 # 0) \/ y % 400 = 0
DaysInMonth(y, m) ==
    IF m = 2 THEN (IF IsLeap(y) THEN 29 ELSE 28)
    ELSE IF m \in {4, 6, 9, 11} THEN 30 ELSE 31

\* datetime(year, month, day) does not raise ValueError
datetime_ok(year, month, day) ==
    /\ 1 <= year /\ year <= 9999
    /\ 1 <= month /\ month <= 12
    /\ 1 <= day /\ day <= DaysInMonth(year, month)

\* None, as a date and as a (month, year) pair
NoDate == [year |-> 0, month |-> 0, day |-> 0]
NoMonthYear == <<0, 0>>

\* link_notes.parse_date_from_filename
parse_date_from_filename(filename) ==
    LET name_without_ext == re_sub_dup(replace_md(filename))
        match == re_match_date(name_without_ext)
    IN  IF match # <<>>
        THEN LET month == int(match[1])
                 day   == int(match[2])
                 year  == int(match[3])
             IN  IF datetime_ok(year, month, day)
                 THEN [year |-> year, month |-> month, day |-> day]
                 ELSE NoDate
        ELSE NoDate

\* organize_files.parse_date_from_filename
org_parse_date_from_filename(filename) ==
    LET name_without_ext == re_sub_dup(replace_md(filename))
        match == re_match_date(name_without_ext)
    IN  IF match # <<>>
        THEN LET month == int(match[1])
                 day   == int(match[2])
                 year  == int(match[3])
             IN  IF datetime_ok(year, month, day)
                 THEN <<month, year>>
                 ELSE NoMonthYear
        ELSE NoMonthYear

(***************************************************************************)
(* The Heading Fixer                                                       *)
(***************************************************************************)
month_names ==
    << <<"J", "a", "n", "u", "a", "r", "y">>,
       <<"F", "e", "b", "r", "u", "a", "r", "y">>,
       <<"M", "a", "r", "c", "h">>,
       <<"A", "p", "r", "i", "l">>,
       <<"M", "a", "y">>,
       <<"J", "u", "n", "e">>,
       <<"J", "u", "l", "y">>,
       <<"A", "u", "g", "u", "s", "t">>,
       <<"S", "e", "p", "t", "e", "m", "b", "e", "r">>,
       <<"O", "c", "t", "o", "b", "e", "r">>,
       <<"N", "o", "v", "e", "m", "b", "e", "r">>,
       <<"D", "e", "c", "e", "m", "b", "e", "r">> >>

\* seq[i] with Python's indexing: 0-based, negative indices count from the end
py_index_ok(seq, i) == -Len(seq) <= i /\ i < Len(seq)
py_index(seq, i) == IF i >= 0 THEN seq[i + 1] ELSE seq[Len(seq) + i + 1]

\* int(t) does not raise ValueError (t over the model's alphabet: no sign,
\* blank or underscore)
int_ok(t) == t # <<>> /\ AllDigits(t)

\* The text written before the content: lines 26-45 of organize_files.py
heading_title(filename) ==
    LET tokens == split_dash(filename)
    IN  IF /\ Len(tokens) = 3
           /\ int_ok(tokens[1])
           /\ py_index_ok(month_names, int(tokens[1]) - 1)
        THEN <<"#", " ">> \o py_index(month_names, int(tokens[1]) - 1) \o <<" ">>
                 \o tokens[2] \o <<",", " ">> \o tokens[3] \o <<"\n", "\n">>
        ELSE <<"#", " ">> \o filename \o <<"\n", "\n">>

\* content.strip().startswith("#")
starts_with_hash(content) == strip(content) # <<>> /\ strip(content)[1] = "#"

fix_markdown_heading_always(name, content, accessible) ==
    IF ~accessible
    THEN [content |-> content, ret |-> "False"]
    ELSE [content |-> heading_title(stem(name)) \o content, ret |-> "True"]

\* fix_markdown_heading(file_path) on the file called name holding content;
\* accessible: open() succeeds.  The result is the file's new content and
\* the value returned ("True", "None" when nothing is written, "False" when
\* an exception was caught).
fix_markdown_heading(name, content, accessible) ==
    IF ~accessible
    THEN [content |-> content, ret |-> "False"]
    ELSE IF starts_with_hash(content)
    THEN [content |-> content, ret |-> "None"]
    ELSE [content |-> heading_title(stem(name)) \o content, ret |-> "True"]

(***************************************************************************)
(* The vault                                                               *)
(***************************************************************************)
Root == <<>>

\* Path.glob("*.md") / rglob("*.md") keep the names that end in ".md"
glob_md(name) == Len(name) >= 3 /\ SubSeq(name, Len(name) - 2, Len(name)) = MD

\* Path.exists()
exists(f, path) == path \in DOMAIN f

\* f with the file at path removed / a file put at path
Without(f, path) == [p \in DOMAIN f \ {path} |-> f[p]]
With(f, path, file) == [p \in DOMAIN f \cup {path} |-> IF p = path THEN file ELSE f[p]]

\* open() succeeds on the file at path
accessible(path) == path \notin env.noaccess

(***************************************************************************)
(* The Organizer                                                           *)
(***************************************************************************)
create_folder_name_nopad(month, year) == str(year) \o <<"-">> \o str(month)

\* create_folder_name: f"{year:04d}-{month:02d}"
create_folder_name(month, year) ==
    zfill(str(year), 4) \o <<"-">> \o zfill(str(month), 2)

free_target_plain(f, dir, target, original, counter) == target

\* The loop of lines 141-147: the first of filename, stem(1)suffix,
\* stem(2)suffix, ... that does not exist in dir
RECURSIVE free_target(_, _, _, _, _)
free_target(f, dir, target, original, counter) ==
    IF exists(f, <<dir, target>>)
    THEN free_target(f, dir,
                     stem(original) \o <<"(">> \o str(counter) \o <<")">>
                         \o suffix(original),
                     original, counter + 1)
    ELSE target

\* organize_files up to the loop: the existence check, the glob, the counters
OrgStart ==
    /\ opc \in {"idle", "done"}
    /\ oruns < MaxOrgRuns
    /\ LET globbed == { p[2] : p \in { q \in DOMAIN fs : q[1] = Root /\ glob_md(q[2]) } }
       IN  /\ md_files' = globbed
           /\ opc' = IF globbed = {} THEN "done" ELSE "run"
    /\ organized_count' = 0
    /\ skipped_count' = 0
    /\ fixed_count' = 0
    /\ errors' = <<>>
    /\ oruns' = oruns + 1
    /\ ostart' = fs
    /\ UNCHANGED <<fsVars, linkVars, parseVars, headVars>>

\* One iteration of the loop of lines 116-156 (the glob order is any order);
\* the summary follows the last iteration.
OrgStep ==
    /\ opc = "run"
    /\ \E filename \in md_files :
        LET file_path == <<Root, filename>>
            date_info == org_parse_date_from_filename(filename)
            fixed     == fix_markdown_heading(filename, fs[file_path].content,
                                              accessible(file_path))
            fs1       == With(fs, file_path,
                              [fs[file_path] EXCEPT !.content = fixed.content])
            folder_name == create_folder_name(date_info[1], date_info[2])
            target    == free_target(fs1, folder_name, filename, filename, 1)
            rest      == md_files \ {filename}
            after     == IF rest = {} THEN "done" ELSE "run"
        IN  IF date_info = NoMonthYear
            THEN \* could not parse date: skipped
                 /\ skipped_count' = skipped_count + 1
                 /\ md_files' = rest
                 /\ opc' = after
                 /\ UNCHANGED <<fs, dirs, organized_count, fixed_count, errors>>
            ELSE /\ fixed_count' = IF fixed.ret = "True" THEN fixed_count + 1
                                   ELSE fixed_count
                 /\ UNCHANGED skipped_count
                 /\ IF exists(fs1, <<Root, folder_name>>)
                    THEN \* mkdir(exist_ok=True) raises FileExistsError on a
                         \* regular file; line 134 is outside the try
                         /\ opc' = "crashed"
                         /\ fs' = fs1
                         /\ UNCHANGED <<dirs, md_files, organized_count, errors>>
                    ELSE /\ dirs' = dirs \cup {folder_name}
                         /\ md_files' = rest
                         /\ opc' = after
                         /\ IF folder_name \in env.roDirs
                            THEN \* shutil.move raises: caught, recorded
                                 /\ errors' = Append(errors, filename)
                                 /\ fs' = fs1
                                 /\ UNCHANGED organized_count
                            ELSE /\ fs' = With(Without(fs1, file_path),
                                              <<folder_name, target>>, fs1[file_path])
                                 /\ organized_count' = organized_count + 1
                                 /\ UNCHANGED errors
    /\ UNCHANGED <<env, oruns, ostart, linkVars, parseVars, headVars>>

(***************************************************************************)
(* The Linker                                                              *)
(***************************************************************************)
\* datetime comparison
DateLE(a, b) ==
    \/ a.year < b.year
    \/ a.year = b.year /\ a.month < b.month
    \/ a.year = b.year /\ a.month = b.month /\ a.day <= b.day

\* sorted() of a set of dates
RECURSIVE sorted(_)
sorted(S) ==
    IF S = {} THEN <<>>
    ELSE LET m == CHOOSE x \in S : \A y \in S : DateLE(x, y)
         IN  <<m>> \o sorted(S \ {m})

\* A dict is the sequence of its [key, val] entries in insertion order.
\* A value is a Path, a list of Paths, or None.
PyNone == [kind |-> "None"]
PyPath(path) == [kind |-> "Path", path |-> path]
PyList(items) == [kind |-> "list", items |-> items]

keys(d) == { d[i].key : i \in 1..Len(d) }
dict_get(d, key) == d[CHOOSE i \in 1..Len(d) : d[i].key = key].val

dict_set_first_wins(d, key, val) ==
    IF key \in keys(d) THEN d ELSE Append(d, [key |-> key, val |-> val])

\* d[key] = val
dict_set(d, key, val) ==
    IF key \in keys(d)
    THEN [i \in 1..Len(d) |-> IF d[i].key = key THEN [key |-> key, val |-> val]
                              ELSE d[i]]
    ELSE Append(d, [key |-> key, val |-> val])

\* d[key].append(path), d a defaultdict(list)
dict_append(d, key, path) ==
    IF key \in keys(d)
    THEN dict_set(d, key, PyList(Append(dict_get(d, key).items, path)))
    ELSE dict_set(d, key, PyList(<<path>>))

\* get_next_note_link: the value mapped to the date after current_date
get_next_note_link(current_date, all_dates) ==
    LET sorted_dates == sorted(keys(all_dates))
    IN  IF current_date \in keys(all_dates)
        THEN LET current_index ==
                     CHOOSE i \in 1..Len(sorted_dates) : sorted_dates[i] = current_date
             IN  IF current_index < Len(sorted_dates)
                 THEN dict_get(all_dates, sorted_dates[current_index + 1])
                 ELSE PyNone
        ELSE PyNone

\* f"\n\n---\n**Next:** [[{next_note_name}]]"
link_text(next_note_name) ==
    <<"\n", "\n", "-", "-", "-", "\n", "*", "*", "N", "e", "x", "t", ":", "*", "*", " ", "[", "[">> \o next_note_name
        \o <<"]", "]">>

add_next_note_link_rewrite(content, next_note_filename, can_open) ==
    IF ~can_open \/ Contains(content, <<"[", "[">> \o next_note_filename \o <<"]", "]">>)
    THEN [content |-> content, ret |-> FALSE]
    ELSE [content |-> link_text(replace_md(next_note_filename)), ret |-> TRUE]

\* add_next_note_link on a file holding content; can_open: open() succeeds.
\* The result is the file's new content and the value returned.
add_next_note_link(content, next_note_filename, can_open) ==
    IF ~can_open
    THEN [content |-> content, ret |-> FALSE]
    ELSE IF Contains(content, <<"[", "[">> \o next_note_filename \o <<"]", "]">>)
    THEN [content |-> content, ret |-> FALSE]
    ELSE [content |-> content \o link_text(replace_md(next_note_filename)),
          ret |-> TRUE]

\* The (date, file) pairs the linking loop visits, in its order
RECURSIVE loop_items(_)
loop_items(d) ==
    IF d = <<>> THEN <<>>
    ELSE LET e == Head(d)
         IN  (IF e.val.kind = "Path" THEN << <<e.key, e.val.path>> >>
              ELSE [i \in 1..Len(e.val.items) |-> <<e.key, e.val.items[i]>>])
             \o loop_items(Tail(d))

\* After the scan: "No valid date files found" ends the run, otherwise the
\* linking loop starts with linked_count = skipped_count = 0.
AfterScan(left, d) ==
    IF left # {} THEN lpc' = "scan" /\ work' = <<>>
    ELSE IF d = <<>> THEN lpc' = "done" /\ work' = <<>>
    ELSE lpc' = "link" /\ work' = loop_items(d)

\* link_all_vault_notes / link_notes_in_directory up to the scan: the
\* existence check and the rglob / glob.  A later run repeats the first
\* run's mode and directory.
LinkStart ==
    /\ lpc \in {"idle", "done"}
    /\ lruns < MaxLinkRuns
    /\ \E m \in {"vault", "folder"}, d \in dirs \cup {Root} :
        /\ lruns > 0 => m = mode /\ d = ldir
        /\ m = "vault" <=> d = Root
        /\ mode' = m
        /\ ldir' = d
        /\ LET found == { p \in DOMAIN fs :
                            glob_md(p[2]) /\ (m = "folder" => p[1] = d) }
           IN  toScan' = found /\ AfterScan(found, <<>>)
    /\ scanOrder' = <<>>
    /\ all_date_files' = <<>>
    /\ linked_count' = 0
    /\ link_skipped_count' = 0
    /\ lruns' = lruns + 1
    /\ lbefore' = fs
    /\ UNCHANGED <<fsVars, orgVars, parseVars, headVars>>

\* One iteration of the scanning loop (lines 101-104 and 148-151); the
\* directory is enumerated in any order.
LinkScan ==
    /\ lpc = "scan"
    /\ \E file_path \in toScan :
        LET date_obj == parse_date_from_filename(file_path[2])
            d == IF date_obj = NoDate THEN all_date_files
                 ELSE IF mode = "vault"
                 THEN dict_set(all_date_files, date_obj, PyPath(file_path))
                 ELSE dict_append(all_date_files, date_obj, file_path)
        IN  /\ all_date_files' = d
            /\ toScan' = toScan \ {file_path}
            /\ scanOrder' = Append(scanOrder, file_path)
            /\ AfterScan(toScan \ {file_path}, d)
    /\ UNCHANGED <<mode, ldir, linked_count, link_skipped_count, lruns, lbefore,
                   fsVars, orgVars, parseVars, headVars>>

\* One iteration of the linking loop (lines 116-129 and 163-175); the
\* summary follows the last iteration.
LinkStep ==
    /\ lpc = "link"
    /\ LET current_date == Head(work)[1]
           file_path == Head(work)[2]
           next_note_filename == get_next_note_link(current_date, all_date_files)
           after == IF Tail(work) = <<>> THEN "done" ELSE "link"
       IN  IF next_note_filename.kind = "None"
           THEN \* last chronological note
                /\ link_skipped_count' = link_skipped_count + 1
                /\ work' = Tail(work)
                /\ lpc' = after
                /\ UNCHANGED <<fs, linked_count>>
           ELSE IF next_note_filename.kind # "Path"
           THEN \* next_note_filename.name on a list: AttributeError
                /\ lpc' = "crashed"
                /\ UNCHANGED <<fs, work, linked_count, link_skipped_count>>
           ELSE LET r == add_next_note_link(fs[file_path].content,
                                            next_note_filename.path[2],
                                            accessible(file_path))
                IN  /\ fs' = [fs EXCEPT ![file_path].content = r.content]
                    /\ linked_count' = IF r.ret THEN linked_count + 1
                                       ELSE linked_count
                    /\ link_skipped_count' = IF r.ret THEN link_skipped_count
                                             ELSE link_skipped_count + 1
                    /\ work' = Tail(work)
                    /\ lpc' = after
    /\ UNCHANGED <<dirs, env, mode, ldir, toScan, scanOrder, all_date_files,
                   lruns, lbefore, orgVars, parseVars, headVars>>


(***************************************************************************)
(* The parser and the Heading Fixer as operations                          *)
(***************************************************************************)
\* link_notes.parse_date_from_filename(fname)
ParseLinker ==
    /\ fname # <<>> /\ dateL = <<>>
    /\ dateL' = <<parse_date_from_filename(fname)>>
    /\ UNCHANGED <<fname, dateO, fsVars, orgVars, linkVars, headVars>>

\* organize_files.parse_date_from_filename(fname)
ParseOrganizer ==
    /\ fname # <<>> /\ dateO = <<>>
    /\ dateO' = <<org_parse_date_from_filename(fname)>>
    /\ UNCHANGED <<fname, dateL, fsVars, orgVars, linkVars, headVars>>

\* fix_markdown_heading on the file hname
HeadingFix ==
    /\ hname # <<>>
    /\ Len(hrets) < MaxHeadingCalls
    /\ LET r == fix_markdown_heading(hname, hcontent, TRUE)
       IN  hcontent' = r.content /\ hrets' = Append(hrets, r.ret)
    /\ UNCHANGED <<hname, horig, fsVars, orgVars, linkVars, parseVars>>


(***************************************************************************)
(* Inputs: the vaults, file names and contents the model starts from       *)
(***************************************************************************)
Hello  == <<"h", "i">>
Titled == <<"#", " ", "t">>
Old    == <<"o", "l", "d">>

NameA == <<"6", "-", "2", "9", "-", "2", "0", "2", "5", ".", "m", "d">>
NameB == <<"6", "-", "2", "9", "-", "2", "0", "2", "5", "(", "1", ")", ".", "m", "d">>
NameC == <<"3", "-", "5", "-", "2", "0", "2", "4", ".", "m", "d">>
NameN == <<"n", "o", "t", "e", "s", ".", "m", "d">>
Folder6 == <<"2", "0", "2", "5", "-", "0", "6">>
Folder3 == <<"2", "0", "2", "4", "-", "0", "3">>

NoFaults == [roDirs |-> {}, noaccess |-> {}]

OrgIdle ==
    /\ opc = "idle" /\ md_files = {} /\ organized_count = 0 /\ skipped_count = 0
    /\ fixed_count = 0 /\ errors = <<>> /\ oruns = 0 /\ ostart = fs
LinkIdle ==
    /\ lpc = "idle" /\ mode = "vault" /\ ldir = Root /\ toScan = {}
    /\ scanOrder = <<>> /\ all_date_files = <<>> /\ work = <<>>
    /\ linked_count = 0 /\ link_skipped_count = 0 /\ lruns = 0 /\ lbefore = fs
ParseIdle == fname = <<>> /\ dateL = <<>> /\ dateO = <<>>
HeadIdle == hname = <<>> /\ hcontent = <<>> /\ horig = <<>> /\ hrets = <<>>
NoVault == fs = [p \in {} |-> 0] /\ dirs = {} /\ env = NoFaults

\* A vault before the Organizer runs: any notes in the root, month folders
\* that may already hold notes of the same names, any of them existing empty;
\* blockers are regular files of the root that have the name of a month folder.
OrgVault(blockers) ==
    \E S \in SUBSET {NameA, NameB, NameC, NameN},
       S6 \in SUBSET {NameA, NameB},
       S3 \in SUBSET {NameC},
       extra \in SUBSET {Folder6, Folder3} :
      \E c \in [S -> {Hello, Titled}] :
        LET notes == {<<Root, n>> : n \in S} \cup {<<Folder6, n>> : n \in S6}
                         \cup {<<Folder3, n>> : n \in S3}
            paths == notes \cup {<<Root, b>> : b \in blockers}
            ds    == {p[1] : p \in {q \in notes : q[1] # Root}} \cup extra
        IN  /\ ds \cap blockers = {}
            /\ fs = [p \in paths |->
                       [orig |-> p,
                        content |-> IF p[1] = Root /\ p[2] \in S
                                    THEN c[p[2]] ELSE Old]]
            /\ dirs = ds

InitOrg ==
    /\ OrgVault({}) /\ env = NoFaults
    /\ OrgIdle /\ LinkIdle /\ ParseIdle /\ HeadIdle

\* The same vaults, where in addition a regular file may have the name of a
\* month folder, a month folder may be read-only and a note may refuse open().
InitOrgFaults ==
    /\ \E blockers \in SUBSET {Folder3} : OrgVault(blockers)
    /\ \E ro \in SUBSET (dirs \cap {Folder6}),
          na \in SUBSET ({<<Root, NameA>>} \cap DOMAIN fs) :
         env = [roDirs |-> ro, noaccess |-> na]
    /\ OrgIdle /\ LinkIdle /\ ParseIdle /\ HeadIdle

NextOrg == OrgStart \/ OrgStep

SpecOrg == InitOrg /\ [][NextOrg]_vars
SpecOrgFaults == InitOrgFaults /\ [][NextOrg]_vars

FolderJ == <<"2", "0", "2", "5", "-", "0", "1">>
Name1  == <<"1", "-", "1", "-", "2", "0", "2", "5", ".", "m", "d">>
Name2  == <<"1", "-", "2", "-", "2", "0", "2", "5", ".", "m", "d">>
Name2b == <<"1", "-", "2", "-", "2", "0", "2", "5", "(", "1", ")", ".", "m", "d">>
Name3  == <<"1", "-", "3", "-", "2", "0", "2", "5", ".", "m", "d">>
\* a note that already holds the text [[1-2-2025.md]]
Linked2 == <<"[", "[", "1", "-", "2", "-", "2", "0", "2", "5", ".", "m", "d", "]", "]">>

\* A vault before the Linker runs: January notes in 2025-01, two of them of
\* the same day, a third note of that day in the root, and an undated note.
LinkPaths ==
    { <<FolderJ, Name1>>, <<FolderJ, Name2>>, <<FolderJ, Name2b>>,
      <<Root, Name2>>, <<FolderJ, Name3>>, <<FolderJ, NameN>> }

LinkVault ==
    \E S \in SUBSET LinkPaths, c1 \in {Hello, Linked2} :
        /\ fs = [p \in S |->
                   [orig |-> p,
                    content |-> IF p = <<FolderJ, Name1>> THEN c1 ELSE Hello]]
        /\ dirs = {p[1] : p \in {q \in S : q[1] # Root}}

InitLink ==
    /\ LinkVault /\ env = NoFaults
    /\ OrgIdle /\ LinkIdle /\ ParseIdle /\ HeadIdle

\* The same vaults, where a note may refuse open().
InitLinkFaults ==
    /\ LinkVault
    /\ \E na \in SUBSET ({<<FolderJ, Name2>>} \cap DOMAIN fs) :
         env = [roDirs |-> {}, noaccess |-> na]
    /\ OrgIdle /\ LinkIdle /\ ParseIdle /\ HeadIdle

NextLink == LinkStart \/ LinkScan \/ LinkStep

SpecLink == InitLink /\ [][NextLink]_vars
SpecLinkFaults == InitLinkFaults /\ [][NextLink]_vars


\* File names given to the parsers: month, "-", day, separator, year, a
\* duplicate suffix and an extension, each well-formed or not
ParseMonths == { <<"1">>,
                 <<"2">>,
                 <<"6">>,
                 <<"1", "2">>,
                 <<"1", "3">>,
                 <<"0">>,
                 <<"x">>,
                 <<"1", ".", "m", "d">> }
ParseDays   == { <<"1">>,
                 <<"2", "9">>,
                 <<"3", "0">>,
                 <<"3", "1">>,
                 <<"3", "2">>,
                 <<"x">> }
ParseSeps   == { <<"-">>,
                 <<>> }
ParseYears  == { <<"2", "0", "2", "4">>,
                 <<"2", "0", "2", "5">>,
                 <<"0", "0", "0", "0">>,
                 <<"2", "0", "2">>,
                 <<"2", "0", "2", "5", "5">> }
ParseDups   == { <<>>,
                 <<"(", "1", ")">>,
                 <<"(", "1", "2", ")">>,
                 <<"(", "1", ")", "(", "1", ")">>,
                 <<"(", ")">>,
                 <<"(", "x", ")">> }
ParseExts   == { <<".", "m", "d">>,
                 <<>>,
                 <<".", "m", "d", ".", "m", "d">>,
                 <<".", "t", "x", "t">>,
                 <<"\n", ".", "m", "d">>,
                 <<".", "M", "D">> }
ParseNames ==
    { m \o <<"-">> \o d \o sep \o y \o dup \o ext :
        m \in ParseMonths, d \in ParseDays, sep \in ParseSeps,
        y \in ParseYears, dup \in ParseDups, ext \in ParseExts }

InitParse ==
    /\ fname \in ParseNames /\ dateL = <<>> /\ dateO = <<>>
    /\ NoVault /\ OrgIdle /\ LinkIdle /\ HeadIdle

NextParse == ParseLinker \/ ParseOrganizer

SpecParse == InitParse /\ [][NextParse]_vars

\* Files given to the Heading Fixer
HeadNames == { <<"5", "-", "2", "-", "2", "0", "2", "5", ".", "m", "d">>,
               <<"6", "-", "2", "9", "-", "2", "0", "2", "5", "(", "1", ")", ".", "m", "d">>,
               <<"1", "2", "-", "2", "5", "-", "2", "0", "2", "4", ".", "m", "d">>,
               <<"0", "-", "5", "-", "2", "0", "2", "5", ".", "m", "d">>,
               <<"1", "3", "-", "1", "-", "2", "0", "2", "5", ".", "m", "d">>,
               <<"x", "-", "1", "-", "2", "0", "2", "5", ".", "m", "d">>,
               <<"1", "-", "2", ".", "m", "d">>,
               <<"n", "o", "t", "e", "s", ".", "m", "d">> }
HeadContents == { <<>>,
                  <<"h", "e", "l", "l", "o">>,
                  <<"#", " ", "t">>,
                  <<" ", "\n", "#", " ", "t">>,
                  <<"h", "i", "#">>,
                  <<" ", "h", "i">>,
                  <<"#">>,
                  <<"\n", "\n">> }

InitHeading ==
    /\ hname \in HeadNames /\ hcontent \in HeadContents
    /\ horig = hcontent /\ hrets = <<>>
    /\ NoVault /\ OrgIdle /\ LinkIdle /\ ParseIdle

NextHeading == HeadingFix

SpecHeading == InitHeading /\ [][NextHeading]_vars


(***************************************************************************)
(* Organizer: the claims                                                   *)
(***************************************************************************)
\* The month folder of a (month, year) pair, written digit by digit: YYYY-MM
MonthFolder(my) ==
    << DigitChar(my[2] \div 1000), DigitChar((my[2] \div 100) % 10),
       DigitChar((my[2] \div 10) % 10), DigitChar(my[2] % 10), "-",
       DigitChar(my[1] \div 10), DigitChar(my[1] % 10) >>

\* name without its last three characters (the ".md" of a globbed name)
Base(name) == SubSeq(name, 1, Len(name) - 3)
Numbered(name, n) == Base(name) \o <<"(">> \o str(n) \o <<")">> \o MD

\* The step moved the file at src to dst and touched no other path.
MovedTo(src, dst) ==
    /\ src[1] = Root /\ dst[1] # Root
    /\ src \in DOMAIN fs /\ src \notin DOMAIN fs'
    /\ dst \notin DOMAIN fs /\ dst \in DOMAIN fs'
    /\ DOMAIN fs' = (DOMAIN fs \ {src}) \cup {dst}
    /\ fs'[dst].orig = fs[src].orig
    /\ \A p \in DOMAIN fs \ {src} : p[1] # Root => fs'[p] = fs[p]
    /\ IF <<dst[1], src[2]>> \notin DOMAIN fs
       THEN dst[2] = src[2]
       ELSE \E n \in 1..Cardinality(DOMAIN fs) :
              /\ dst[2] = Numbered(src[2], n)
              /\ \A k \in 1..(n - 1) : <<dst[1], Numbered(src[2], k)>> \in DOMAIN fs

\* C3: a move never overwrites an existing file.  Every step that moves a
\* file puts it at a path that did not exist, leaves every file of every
\* month folder in place with the same name and content, and names the moved
\* file by its own name when that is free and otherwise stem(N).md for the
\* smallest N >= 1 that is free.
C3_MoveNeverOverwrites ==
    [][ organized_count' = organized_count + 1 =>
          \E src \in DOMAIN fs, dst \in DOMAIN fs' : MovedTo(src, dst) ]_vars

\* C3 witness: a note moved out of the root sits in a month folder under a
\* numbered name next to the file that already had its plain name.
C3_Witness ==
    \E p \in DOMAIN fs :
        /\ p[1] # Root /\ fs[p].orig[1] = Root
        /\ p[2] = Numbered(fs[p].orig[2], 2)
        /\ <<p[1], fs[p].orig[2]>> \in DOMAIN fs
        /\ fs[<<p[1], fs[p].orig[2]>>].content = Old

\* The notes the run that started from ostart found in the source directory
Globbed == { p \in DOMAIN ostart : p[1] = Root /\ glob_md(p[2]) }
Dated   == { p \in Globbed : org_parse_date_from_filename(p[2]) # NoMonthYear }

\* C4: when organize_files has completed, every note of the source directory
\* whose name parses to (month, year) is in the folder YYYY-MM of that month
\* and year and no longer in the source directory (3-5-2024.md is in
\* 2024-03); every note whose name does not parse is where it was, unchanged,
\* and counted as skipped; the files of the subfolders are where they were,
\* unchanged; and a run after a completed run moves nothing.
C4_OrganizedByMonth ==
    opc = "done" =>
        /\ \A p \in Dated :
             /\ p \notin DOMAIN fs
             /\ \E q \in DOMAIN fs :
                  /\ q[1] = MonthFolder(org_parse_date_from_filename(p[2]))
                  /\ fs[q].orig = ostart[p].orig
        /\ \A p \in DOMAIN ostart \ Dated : p \in DOMAIN fs /\ fs[p] = ostart[p]
        /\ skipped_count = Cardinality(Globbed \ Dated)
        /\ organized_count = Cardinality(Dated)
        /\ (<<Root, NameC>> \in DOMAIN ostart =>
               \E q \in DOMAIN fs :
                   q[1] = Folder3 /\ fs[q].orig = ostart[<<Root, NameC>>].orig)
        /\ (oruns >= 2 => organized_count = 0)

\* C4 witness: a second run has completed after a first one that moved
\* 3-5-2024.md into 2024-03 and left notes.md in the source directory.
C4_Witness ==
    /\ opc = "done" /\ oruns = 2
    /\ <<Root, NameN>> \in DOMAIN fs
    /\ \E q \in DOMAIN fs : q[1] = Folder3 /\ fs[q].orig = <<Root, NameC>>

\* C10: every file the Organizer has placed in a month folder has a name
\* that both parsers map to the date of the name it had before the move, and
\* sits in the folder of the month parsed from its current name.
C10_MovedNotesStayDated ==
    \A p \in DOMAIN fs :
        (p[1] # Root /\ fs[p].orig[1] = Root) =>
            /\ parse_date_from_filename(p[2]) # NoDate
            /\ parse_date_from_filename(p[2])
                   = parse_date_from_filename(fs[p].orig[2])
            /\ org_parse_date_from_filename(p[2])
                   = org_parse_date_from_filename(fs[p].orig[2])
            /\ p[1] = MonthFolder(org_parse_date_from_filename(p[2]))

\* C6 (Organizer): once a run has started, no file's failure ends it before
\* the summary.
C6_NoFileAbortsTheBatch == opc # "crashed"

(***************************************************************************)
(* Linker: the claims                                                      *)
(***************************************************************************)
\* The notes in the scope of the current run, and those with a date
InScope == { p \in DOMAIN lbefore :
               glob_md(p[2]) /\ (mode = "folder" => p[1] = ldir) }
\* the Linker's parse of every note name of these vaults
DateTable ==
    [n \in {p[2] : p \in LinkPaths} |-> parse_date_from_filename(n)]
DateOf(p) == DateTable[p[2]]
DatedNotes == { p \in InScope : DateOf(p) # NoDate }
ScopeDates == { DateOf(p) : p \in DatedNotes }
IsLastDate(d) == \A e \in ScopeDates : DateLE(e, d)
\* the date that follows d among the dates of the scope
IsNextDate(d, n) ==
    /\ n \in ScopeDates /\ n # d /\ DateLE(d, n)
    /\ \A e \in ScopeDates : (e # d /\ DateLE(d, e)) => DateLE(n, e)

\* The block the Linker appends for a target file name: the name without
\* ".md" in double brackets after a blank line, a rule and "**Next:** "
NextBlock(target) ==
    <<"\n", "\n", "-", "-", "-", "\n", "*", "*", "N", "e", "x", "t", ":", "*", "*", " ", "[", "[">>
        \o replace_md(target) \o <<"]", "]">>
Bracketed(target) == <<"[", "[">> \o target \o <<"]", "]">>

\* p holds what it held when the run started
Untouched(p) == p \in DOMAIN fs /\ fs[p] = lbefore[p]
\* p holds what it held when the run started plus one block naming t
LinkedTo(p, t) ==
    /\ p \in DOMAIN fs
    /\ fs[p].orig = lbefore[p].orig
    /\ fs[p].content = lbefore[p].content \o NextBlock(t[2])

\* Position of a scanned path in the scan, and the note of date d met last
ScanPos(p) == CHOOSE i \in 1..Len(scanOrder) : scanOrder[i] = p
Survivor(d) ==
    CHOOSE p \in DatedNotes :
        /\ DateOf(p) = d
        /\ \A q \in DatedNotes : DateOf(q) = d => ScanPos(q) <= ScanPos(p)

\* C1: a second run of the Linker in the same mode on the unchanged notes
\* adds no link text: every file holds after run 2 what it held after run 1.
C1_SecondRunAddsNothing ==
    (lruns = 2 /\ lpc = "done") => fs = lbefore

\* C2: per-folder linking of a folder with at least two distinct dates runs
\* to completion, links every note to a note of the next date of the folder
\* and leaves the notes of the last date without a link.
C2_PerFolderChain ==
    (mode = "folder" /\ lpc \in {"done", "crashed"}
         /\ Cardinality(ScopeDates) >= 2) =>
        /\ lpc = "done"
        /\ \A p \in DatedNotes :
             IF IsLastDate(DateOf(p)) THEN Untouched(p)
             ELSE \E t \in DatedNotes :
                     /\ IsNextDate(DateOf(p), DateOf(t))
                     /\ \A q \in DatedNotes :
                          DateOf(q) = DateOf(p) =>
                              \/ LinkedTo(q, t)
                              \/ Untouched(q)
                                   /\ Contains(fs[q].content, Bracketed(t[2]))

\* C5: when vault-wide linking has completed, the mapping holds for every
\* date exactly the note of that date met last in the scan; each such note
\* whose date is not the last one is linked to the mapped note of the next
\* date (one block appended, or left as it was because it already held that
\* note's bracketed file name); the mapped note of the last date and every
\* note that lost its date to a later one are unchanged.
C5_VaultLastScannedWins ==
    (mode = "vault" /\ lpc = "done" /\ lruns >= 1) =>
        /\ Len(all_date_files) = Cardinality(ScopeDates)
        /\ \A i \in 1..Len(all_date_files) :
             /\ all_date_files[i].key \in ScopeDates
             /\ all_date_files[i].val = PyPath(Survivor(all_date_files[i].key))
        /\ \A p \in DatedNotes :
             IF p = Survivor(DateOf(p)) /\ ~IsLastDate(DateOf(p))
             THEN \E n \in ScopeDates :
                     /\ IsNextDate(DateOf(p), n)
                     /\ \/ LinkedTo(p, Survivor(n))
                        \/ Untouched(p)
                             /\ Contains(fs[p].content, Bracketed(Survivor(n)[2]))
             ELSE Untouched(p)

\* C5 witness: a completed vault-wide run in which two notes of 1-2-2025 in
\* different directories were scanned, the one in the root last: the note
\* of 1-1-2025 is linked to it and the other note of 1-2-2025 is unchanged.
C5_Witness ==
    /\ mode = "vault" /\ lpc = "done" /\ lruns = 1
    /\ {<<FolderJ, Name1>>, <<FolderJ, Name2b>>, <<Root, Name2>>,
        <<FolderJ, Name3>>} \subseteq DatedNotes
    /\ Survivor(DateOf(<<Root, Name2>>)) = <<Root, Name2>>
    /\ LinkedTo(<<FolderJ, Name1>>, <<Root, Name2>>)
    /\ LinkedTo(<<Root, Name2>>, <<FolderJ, Name3>>)
    /\ Untouched(<<FolderJ, Name2b>>)
    /\ Untouched(<<FolderJ, Name3>>)

\* C9: the Linker only appends.  At every point of a run the vault has the
\* files it had when the run started, and each file holds what it held then
\* or that followed by exactly one block "\n\n---\n**Next:** [[stem]]" for a
\* note of the next date; notes without a date, notes outside the scope and
\* notes of the last date hold what they held.
C9_LinkerOnlyAppends ==
    /\ DOMAIN fs = DOMAIN lbefore
    /\ \A p \in DOMAIN fs :
         \/ Untouched(p)
         \/ /\ p \in DatedNotes
            /\ ~IsLastDate(DateOf(p))
            /\ \E t \in DatedNotes :
                 IsNextDate(DateOf(p), DateOf(t)) /\ LinkedTo(p, t)

\* C9 witness: a run has appended the block for 1-3-2025 to a note of
\* 1-2-2025 while notes.md and the note of 1-3-2025 hold what they held.
C9_Witness ==
    /\ lpc = "done"
    /\ {<<FolderJ, Name2>>, <<FolderJ, Name3>>, <<FolderJ, NameN>>}
           \subseteq DOMAIN fs
    /\ fs[<<FolderJ, Name2>>].content =
           Hello \o <<"\n", "\n", "-", "-", "-", "\n", "*", "*", "N", "e", "x", "t", ":", "*", "*", " ", "[", "[", "1", "-", "3", "-", "2", "0", "2", "5", "]", "]">>
    /\ Untouched(<<FolderJ, Name3>>)
    /\ Untouched(<<FolderJ, NameN>>)

(***************************************************************************)
(* Parser and Heading Fixer: the claims                                    *)
(***************************************************************************)
\* The date a file name stands for: without one trailing ".md" and one
\* trailing "(N)", exactly M-D-YYYY with a valid calendar date; else NoDate
ExactDate(name) ==
    LET a == IF glob_md(name) THEN Base(name) ELSE name
        opens == { i \in 1..(Len(a) - 2) :
                     /\ a[i] = "(" /\ a[Len(a)] = ")"
                     /\ AllDigits(SubSeq(a, i + 1, Len(a) - 1)) }
        b == IF opens = {} THEN a
             ELSE SubSeq(a, 1, (CHOOSE i \in opens : TRUE) - 1)
        t == split_dash(b)
    IN  IF /\ Len(t) = 3
           /\ Len(t[1]) \in {1, 2} /\ AllDigits(t[1])
           /\ Len(t[2]) \in {1, 2} /\ AllDigits(t[2])
           /\ Len(t[3]) = 4 /\ AllDigits(t[3])
           /\ datetime_ok(int(t[3]), int(t[1]), int(t[2]))
        THEN [year |-> int(t[3]), month |-> int(t[1]), day |-> int(t[2])]
        ELSE NoDate

\* C7: both parsers return a date exactly for the names that, without a
\* trailing ".md" and one trailing "(N)", are M-D-YYYY with a valid calendar
\* date, and then that date; for every other name they return no date.
C7_ParsesExactlyDatedNames ==
    /\ dateL # <<>> => dateL[1] = ExactDate(fname)
    /\ dateO # <<>> =>
           dateO[1] = <<ExactDate(fname).month, ExactDate(fname).year>>

\* The first character of content that is not white space is "#"
BeginsWithHash(content) ==
    \E i \in 1..Len(content) :
        content[i] = "#" /\ \A k \in 1..(i - 1) : content[k] \in Whitespace

\* The heading line for a file name: "# <MonthName> <day>, <year>" when the
\* stem is three "-"-separated tokens whose first is a number that indexes
\* the month table (1..12, and 0, which Python's month_names[-1] makes
\* December); otherwise "# <stem>"
HeadingLine(name) ==
    LET t == split_dash(Base(name))
    IN  IF Len(t) = 3 /\ t[1] # <<>> /\ AllDigits(t[1]) /\ int(t[1]) \in 0..12
        THEN <<"#", " ">>
                 \o month_names[IF int(t[1]) = 0 THEN 12 ELSE int(t[1])]
                 \o <<" ">> \o t[2] \o <<",", " ">> \o t[3]
        ELSE <<"#", " ">> \o Base(name)

\* C8: fix_markdown_heading adds a heading at most once.  After any number
\* of calls, a file whose trimmed content began with "#" is unchanged and no
\* call reported a change; any other file holds exactly one heading line, a
\* blank line and its original content, the first call reported the change
\* and no later call did.  Stem 5-2-2025 with content hello gives
\* "# May 2, 2025".
C8_HeadingAddedOnce ==
    hrets # <<>> =>
        /\ IF BeginsWithHash(horig)
           THEN hcontent = horig /\ \A i \in 1..Len(hrets) : hrets[i] = "None"
           ELSE /\ hcontent = HeadingLine(hname) \o <<"\n", "\n">> \o horig
                /\ hrets[1] = "True"
                /\ \A i \in 2..Len(hrets) : hrets[i] = "None"
        /\ (hname = <<"5", "-", "2", "-", "2", "0", "2", "5", ".", "m", "d">> /\ horig = <<"h", "e", "l", "l", "o">>) =>
               hcontent = <<"#", " ", "M", "a", "y", " ", "2", ",", " ", "2", "0", "2", "5", "\n", "\n", "h", "e", "l", "l", "o">>

\* C8 witness: the second call on 5-2-2025.md, which held hello, found the
\* heading written by the first call and changed nothing.
C8_Witness ==
    /\ hname = <<"5", "-", "2", "-", "2", "0", "2", "5", ".", "m", "d">>
    /\ horig = <<"h", "e", "l", "l", "o">>
    /\ hrets = <<"True", "None">>
    /\ hcontent = <<"#", " ", "M", "a", "y", " ", "2", ",", " ", "2", "0", "2", "5", "\n", "\n", "h", "e", "l", "l", "o">>

====
